---- MODULE Spec2Model ----
(***************************************************************************)
(* Model of src/analyzer.js: the Lighthouse batch analyzer.                *)
(*                                                                         *)
(* Strings that the program inspects character by character (the           *)
(* LIGHTHOUSE_URLS value, the CSV text) are sequences of one-character     *)
(* strings.  A JavaScript value that may be null/undefined is a sequence   *)
(* of length 0 (absent) or 1 (present).  Category scores are carried in    *)
(* thousandths (895 is 0.895) and audit numericValues in tenths (25 is     *)
(* 2.5), so that Math.round has something to round.                        *)
(***************************************************************************)
EXTENDS Integers, Sequences, FiniteSets, TLC

\* ---------------------------------------------------------------- bounds
MaxEnvLen == 3
MaxAuditEnvLen == 1
MaxTicks == 1
MaxRuns == 2
MaxCsvRows == 2

\* ISO timestamps are cut to whole seconds by slice(0, -5) (".sssZ" dropped)
MsPerSec == 1000

\* ------------------------------------------------------------ JS values
Null == <<>>
Some(v) == <<v>>
IsNull(x) == x = <<>>

Whitespace == {" "}
Chars == {"a", "b", ",", " "}

StringsUpTo(n) == UNION {[1..k -> Chars] : k \in 0..n}

\* String.prototype.trim
RECURSIVE TrimStart(_)
TrimStart(s) ==
  IF s # <<>> /\ Head(s) \in Whitespace THEN TrimStart(Tail(s)) ELSE s

RECURSIVE TrimEnd(_)
TrimEnd(s) ==
  IF s # <<>> /\ s[Len(s)] \in Whitespace
  THEN TrimEnd(SubSeq(s, 1, Len(s) - 1))
  ELSE s

trim(s) == TrimEnd(TrimStart(s))

\* String.prototype.split(sep): "" gives [""], "a," gives ["a", ""]
RECURSIVE split(_, _)
split(s, sep) ==
  IF \E k \in 1..Len(s) : s[k] = sep
  THEN LET k == CHOOSE k \in 1..Len(s) :
                  s[k] = sep /\ \A j \in 1..(k - 1) : s[j] # sep
       IN  <<SubSeq(s, 1, k - 1)>> \o split(SubSeq(s, k + 1, Len(s)), sep)
  ELSE <<s>>

\* Array.prototype.join(sep) on an array of strings
RECURSIVE join(_, _)
join(ss, sep) ==
  IF ss = <<>> THEN <<>>
  ELSE IF Len(ss) = 1 THEN ss[1]
  ELSE ss[1] \o <<sep>> \o join(Tail(ss), sep)

\* Number.prototype.toString for a non-negative integer, digit by digit
Digit(d) == CASE d = 0 -> "0" [] d = 1 -> "1" [] d = 2 -> "2" [] d = 3 -> "3"
              [] d = 4 -> "4" [] d = 5 -> "5" [] d = 6 -> "6" [] d = 7 -> "7"
              [] d = 8 -> "8" [] OTHER -> "9"

RECURSIVE IntToString(_)
IntToString(n) ==
  IF n < 10 THEN <<Digit(n)>>
  ELSE IntToString(n \div 10) \o <<Digit(n % 10)>>

\* toString of a number carried in tenths: 25 is "2.5", 30 is "3", 0 is "0"
TenthsToString(t) ==
  IF t % 10 = 0 THEN IntToString(t \div 10)
  ELSE IntToString(t \div 10) \o <<".", Digit(t % 10)>>

\* Math.round of a non-negative value given with one extra decimal digit
MathRound(x) == (x + 5) \div 10

\* ------------------------------------------------------ configuration
\* process.env.LIGHTHOUSE_URLS || '' : an unset variable reads as ''
urlsFromEnv(e) == IF e.defined THEN e.value ELSE <<>>

\* !urlsFromEnv || urlsFromEnv.trim() === ''
ConfigMissing(e) == urlsFromEnv(e) = <<>> \/ trim(urlsFromEnv(e)) = <<>>

\* the same pipeline with .filter(url => url.length > 0) left out
ParseUrlsNoFilter(e) ==
  LET parts == split(urlsFromEnv(e), ",")
  IN  [k \in 1..Len(parts) |-> trim(parts[k])]

\* urlsFromEnv.split(',').map(url => url.trim()).filter(url => url.length > 0)
ParseUrls(e) ==
  LET parts == split(urlsFromEnv(e), ",")
      trimmed == [k \in 1..Len(parts) |-> trim(parts[k])]
  IN  SelectSeq(trimmed, LAMBDA u : Len(u) > 0)

EnvValues(n) ==
  {[defined |-> FALSE, value |-> <<>>]}
    \cup {[defined |-> TRUE, value |-> s] : s \in StringsUpTo(n)}

\* ------------------------------------------------------------- reports
CategoryNames == {"performance", "accessibility", "bestPractices", "seo"}
TimingNames == {"fcp", "lcp", "tbt", "cls", "si"}

\* a category of the report: absent, present with score null, or with a score
NoCategory == [present |-> FALSE, score |-> Null]
Category(s) == [present |-> TRUE, score |-> s]

\* an audit entry of the report: absent, present without numericValue, or
\* with a numericValue (in tenths)
NoAudit == [present |-> FALSE, numericValue |-> Null]
Audit(v) == [present |-> TRUE, numericValue |-> v]

Report(cats, auds) == [categories |-> cats, audits |-> auds]

\* ---------------------------------------------------------- Metric Sets
MetricSet(p, a, b, s, fcp, lcp, tbt, cls, si, err) ==
  [performance |-> p, accessibility |-> a, bestPractices |-> b, seo |-> s,
   fcp |-> fcp, lcp |-> lcp, tbt |-> tbt, cls |-> cls, si |-> si,
   error |-> err]

MetricNames ==
  <<"performance", "accessibility", "bestPractices", "seo",
    "fcp", "lcp", "tbt", "cls", "si">>

\* the object literal {} : every field reads as undefined
EmptyObject ==
  MetricSet(Null, Null, Null, Null, Null, Null, Null, Null, Null, Null)

\* the catch blocks' literal: nine nulls and error: error.message
FailedMetricSet(msg) ==
  MetricSet(Null, Null, Null, Null, Null, Null, Null, Null, Null, Some(msg))

\* Math.round(category.score * 100); null * 100 is 0 in JavaScript
RoundScore(c) == IF IsNull(c.score) THEN 0 ELSE MathRound(c.score[1])

\* JavaScript truthiness of a numericValue: undefined and 0 are falsy
Truthy(v) == ~IsNull(v) /\ v[1] # 0

\* audits[k]?.numericValue ? Math.round(audits[k].numericValue) : null
TimingRounded(a) ==
  IF a.present /\ Truthy(a.numericValue)
  THEN Some(MathRound(a.numericValue[1]))
  ELSE Null

\* audits[k]?.numericValue ? audits[k].numericValue : null   (cls, in tenths)
TimingRaw(a) ==
  IF a.present /\ Truthy(a.numericValue) THEN Some(a.numericValue[1]) ELSE Null

\* categories.<name>.score on an absent category is a TypeError
ExtractThrows(report) ==
  \E c \in CategoryNames : ~report.categories[c].present

extractMetrics(report) ==
  MetricSet(Some(RoundScore(report.categories["performance"])),
            Some(RoundScore(report.categories["accessibility"])),
            Some(RoundScore(report.categories["bestPractices"])),
            Some(RoundScore(report.categories["seo"])),
            TimingRounded(report.audits["fcp"]),
            TimingRounded(report.audits["lcp"]),
            TimingRounded(report.audits["tbt"]),
            TimingRaw(report.audits["cls"]),
            TimingRounded(report.audits["si"]),
            Null)

\* --------------------------------------------------------- runLighthouse
\* `temp_${preset}_${Date.now()}.json`
TempFileName(p, t) == [preset |-> p, ts |-> t]

AllCategories(s) == [c \in CategoryNames |-> Category(s)]
AllAudits(v) == [t \in TimingNames |-> Audit(v)]

\* what the engine left in the output file
NoOutput == [kind |-> "none", report |-> Report(AllCategories(Null), AllAudits(Null))]
Garbage == [kind |-> "garbage", report |-> Report(AllCategories(Null), AllAudits(Null))]
Json(r) == [kind |-> "json", report |-> r]

Remove(files, name) == [n \in DOMAIN files \ {name} |-> files[n]]
WriteFile(files, name, content) == (name :> content) @@ files

\* a catch block that does not delete the temporary file
CleanupNothing(files, name, unlinkOk) == files

\* catch: try { if (fs.existsSync(tempFile)) fs.unlinkSync(tempFile) } catch (e) {}
CleanupAfterFailure(files, name, unlinkOk) ==
  IF name \in DOMAIN files /\ unlinkOk THEN Remove(files, name) ELSE files

Thrown(files, msg) ==
  [files |-> files, threw |-> TRUE, message |-> msg, report |-> NoOutput.report]

\* runLighthouse from the point where execAsync settles, with exit code
\* `exit`; unlinkOk says whether unlinkSync succeeds in this call
runLighthouseResume(files, name, exit, unlinkOk) ==
  IF exit # 0
  THEN Thrown(CleanupAfterFailure(files, name, unlinkOk), "Command failed")
  ELSE IF name \notin DOMAIN files
  THEN Thrown(CleanupAfterFailure(files, name, unlinkOk), "ENOENT")
  ELSE IF files[name].kind # "json"
  THEN Thrown(CleanupAfterFailure(files, name, unlinkOk), "Unexpected token")
  ELSE IF ~unlinkOk
  THEN Thrown(CleanupAfterFailure(files, name, unlinkOk), "EPERM")
  ELSE [files |-> Remove(files, name), threw |-> FALSE, message |-> "",
        report |-> files[name].report]

\* ----------------------------------------------------------- analyzeUrls
\* the audit blocks without their catch: the error leaves analyzeUrls
TryAuditNoCatch(r) ==
  IF r.threw THEN [escaped |-> TRUE, metrics |-> EmptyObject]
  ELSE IF ExtractThrows(r.report) THEN [escaped |-> TRUE, metrics |-> EmptyObject]
  ELSE [escaped |-> FALSE, metrics |-> extractMetrics(r.report)]

\* try { report = await runLighthouse(..); metrics = extractMetrics(report) }
\* catch (error) { metrics = {nulls.., error: error.message} }
TryAudit(r) ==
  IF r.threw THEN [escaped |-> FALSE, metrics |-> FailedMetricSet(r.message)]
  ELSE IF ExtractThrows(r.report)
  THEN [escaped |-> FALSE, metrics |-> FailedMetricSet("TypeError")]
  ELSE [escaped |-> FALSE, metrics |-> extractMetrics(r.report)]

\* const result = { url: url, desktop: {}, mobile: {} }
NewResult(u) == [url |-> u, desktop |-> EmptyObject, mobile |-> EmptyObject]

RecordMobile(res, m) == [res EXCEPT !.mobile = m]

\* a desktop block that reuses the mobile block's failure
RecordDesktopShared(res, m) ==
  IF ~IsNull(res.mobile.error) THEN [res EXCEPT !.desktop = res.mobile]
  ELSE [res EXCEPT !.desktop = m]

RecordDesktop(res, m) == [res EXCEPT !.desktop = m]

\* a push that leaves out a URL whose two audits both failed
PushResultUnlessFailed(rs, res) ==
  IF ~IsNull(res.mobile.error) /\ ~IsNull(res.desktop.error) THEN rs
  ELSE Append(rs, res)

\* results.push(result)
PushResult(rs, res) == Append(rs, res)

\* a loop that runs a failed audit again
NextAuditRetry(idx, p, failed) ==
  IF failed THEN [i |-> idx, preset |-> p]
  ELSE IF p = "mobile" THEN [i |-> idx, preset |-> "desktop"]
  ELSE [i |-> idx + 1, preset |-> "mobile"]

\* the loop's order: mobile, then desktop, then the next URL; `failed`
\* (whether the audit just finished failed) plays no part
NextAudit(idx, p, failed) ==
  IF p = "mobile" THEN [i |-> idx, preset |-> "desktop"]
  ELSE [i |-> idx + 1, preset |-> "mobile"]

\* -------------------------------------------------------------- emitters
\* new Date().toISOString().replace(/[:.]/g, '-').slice(0, -5): the instant
\* cut to whole seconds
Timestamp(t) == t \div MsPerSec

\* an archive name that keeps only the even seconds
ArchiveNameCoarse(t) == (t \div (2 * MsPerSec)) * 2

\* path.join(historyDir, `lighthouse_${timestamp...slice(0, -5)}.json`)
ArchiveName(t) == Timestamp(t)

\* `lighthouse_results_${timestamp}.csv` and `lighthouse_email_${timestamp}.html`
CsvName(t) == Timestamp(t)
HtmlName(t) == Timestamp(t)

HeaderLabels ==
  <<"URL",
    "Desktop Performance", "Desktop Accessibility", "Desktop Best Practices",
    "Desktop SEO", "Desktop FCP (ms)", "Desktop LCP (ms)", "Desktop TBT (ms)",
    "Desktop CLS", "Desktop SI (ms)",
    "Mobile Performance", "Mobile Accessibility", "Mobile Best Practices",
    "Mobile SEO", "Mobile FCP (ms)", "Mobile LCP (ms)", "Mobile TBT (ms)",
    "Mobile CLS", "Mobile SI (ms)">>

csvHeader ==
  join([k \in 1..Len(HeaderLabels) |-> <<HeaderLabels[k]>>], ",") \o <<"\n">>

\* `${v || 'ERROR'}`: a cell that also replaces 0
CellTextFalsy(v, isCls) ==
  IF IsNull(v) \/ v[1] = 0 THEN <<"ERROR">>
  ELSE IF isCls THEN TenthsToString(v[1])
  ELSE IntToString(v[1])

\* `${v ?? 'ERROR'}`: the number's text, or ERROR for null and undefined
CellText(v, isCls) ==
  IF IsNull(v) THEN <<"ERROR">>
  ELSE IF isCls THEN TenthsToString(v[1])
  ELSE IntToString(v[1])

MetricCells(m) ==
  [k \in 1..Len(MetricNames) |->
     CellText(m[MetricNames[k]], MetricNames[k] = "cls")]

csvRow(res) ==
  res.url \o <<",">> \o join(MetricCells(res.desktop), ",")
          \o <<",">> \o join(MetricCells(res.mobile), ",")

\* csvHeader + results.map(row).join('\n')
saveResultsToCSV(rs) ==
  csvHeader \o join([k \in 1..Len(rs) |-> csvRow(rs[k])], "\n")

getEmojiHTML(score) ==
  IF IsNull(score) THEN "black"
  ELSE IF score[1] >= 90 THEN "green"
  ELSE IF score[1] >= 50 THEN "yellow"
  ELSE "red"

\* `${getEmojiHTML(v)} ${v ?? 'ERR'}`
HtmlCell(v) ==
  <<getEmojiHTML(v)>> \o (IF IsNull(v) THEN <<"ERR">> ELSE IntToString(v[1]))

HtmlRow(res) ==
  [url |-> res.url,
   cells |-> [k \in 1..8 |->
                IF k <= 4 THEN HtmlCell(res.desktop[MetricNames[k]])
                ELSE HtmlCell(res.mobile[MetricNames[k - 4]])]]

generateSimplifiedHTMLEmail(rs) ==
  [count |-> Len(rs), rows |-> [k \in 1..Len(rs) |-> HtmlRow(rs[k])]]

\* historicalData = { timestamp, date, results }
HistoricalData(t, rs) == [timestamp |-> t, results |-> rs]

Emitters == {"csv", "html", "history"}

\* ---------------------------------------------------------------- state
VARIABLES
  env,            \* process.env.LIGHTHOUSE_URLS
  pc,             \* where the process is: start, exec, resume, emit, exited
  urls, i, preset, result, results,
  tempFile,       \* the running invocation's temporary file name
  execExit,       \* exit code of the engine, once execAsync has settled
  tempFiles,      \* working directory: temp_*.json, name -> content
  csvFiles,       \* working directory: lighthouse_results_*.csv
  htmlFiles,      \* working directory: lighthouse_email_*.html
  archive,        \* historical-data/: name -> content
  now, ticks,     \* the clock (ms), and how often it has advanced
  exitCode,       \* -1 while the process runs
  run,            \* which process execution this is
  invocations,    \* history: the runLighthouse calls of this process
  returned,       \* history: how many of them have returned or thrown
  auditLog,       \* history: what each finished call was given
  deletionFailed, \* history: some unlinkSync has thrown
  lastUnlinkOk,   \* history: unlinkSync worked in the call that finished last
  fatal,          \* history: what reached the .catch handler
  emitted,        \* history: the emitters this process completed
  archiveWrites,  \* history: the instants of the completed saveHistoricalData
  fnArg, fnRes    \* argument and result of a function applied on its own

vars ==
  <<env, pc, urls, i, preset, result, results, tempFile, execExit, tempFiles,
    csvFiles, htmlFiles, archive, now, ticks, exitCode, run, invocations,
    returned, auditLog, deletionFailed, lastUnlinkOk, fatal, emitted,
    archiveWrites, fnArg, fnRes>>

processVars ==
  <<urls, i, preset, result, results, tempFile, execExit, exitCode,
    invocations, returned, auditLog, lastUnlinkOk, fatal, emitted>>

fileVars == <<tempFiles, csvFiles, htmlFiles, archive>>
clockVars == <<now, ticks>>
fnVars == <<fnArg, fnRes>>

EmptyReport == NoOutput.report

\* no function has been applied yet
NoResult == [threw |-> FALSE, metrics |-> EmptyObject]

\* the state of a process before its first statement
FreshProcess ==
  /\ urls = <<>>
  /\ i = 0
  /\ preset = "mobile"
  /\ result = NewResult(<<>>)
  /\ results = <<>>
  /\ tempFile = TempFileName("mobile", 0)
  /\ execExit = 0
  /\ exitCode = -1
  /\ invocations = <<>>
  /\ returned = 0
  /\ auditLog = <<>>
  /\ lastUnlinkOk = TRUE
  /\ fatal = "none"
  /\ emitted = {}

EmptyDisk ==
  /\ tempFiles = <<>>
  /\ csvFiles = <<>>
  /\ htmlFiles = <<>>
  /\ archive = <<>>
  /\ deletionFailed = FALSE
  /\ archiveWrites = <<>>

\* the clock starts at the beginning of a second or on its last millisecond
ClockStarts == {0, MsPerSec - 1}
ClockSteps == {1, MsPerSec}

Init ==
  /\ env \in EnvValues(MaxEnvLen)
  /\ pc = "start"
  /\ FreshProcess
  /\ EmptyDisk
  /\ now = 0
  /\ ticks = 0
  /\ run = 1
  /\ fnArg = EmptyReport
  /\ fnRes = NoResult

\* ------------------------------------------------------ the engine's runs
\* every category scored 0.895, every audit with numericValue 2.5
GoodReport == Report(AllCategories(Some(895)), AllAudits(Some(25)))

\* a null category score, a zero numericValue, an audit entry without
\* numericValue, an absent audit entry
PartialReport ==
  Report([AllCategories(Some(1000)) EXCEPT !["seo"] = Category(Null)],
         [AllAudits(Some(14)) EXCEPT !["fcp"] = Audit(Some(0)),
                                     !["lcp"] = NoAudit,
                                     !["tbt"] = Audit(Null),
                                     !["cls"] = Audit(Some(3))])

\* a report without its performance category
BrokenReport ==
  Report([AllCategories(Some(500)) EXCEPT !["performance"] = NoCategory],
         AllAudits(Some(25)))

EngineReports == {GoodReport, PartialReport, BrokenReport}

\* how one run of the engine can end: its exit code and its output file
EngineOutcomes ==
  {[exit |-> 1, file |-> NoOutput], [exit |-> 1, file |-> Garbage],
   [exit |-> 0, file |-> NoOutput], [exit |-> 0, file |-> Garbage]}
    \cup {[exit |-> 0, file |-> Json(r)] : r \in EngineReports}

\* --------------------------------------------------------------- actions
\* runLighthouse up to its await: the name is chosen, the engine is started
BeginAudit(idx, p) ==
  /\ i' = idx
  /\ preset' = p
  /\ tempFile' = TempFileName(p, now)
  /\ invocations' =
       Append(invocations,
              [i |-> idx, preset |-> p, tempFile |-> TempFileName(p, now)])
  /\ pc' = "exec"

\* the module's top level: the configuration checks, then analyzeUrls up
\* to the first await
Startup ==
  /\ pc = "start"
  /\ IF ConfigMissing(env) \/ ParseUrls(env) = <<>>
     THEN /\ pc' = "exited"
          /\ exitCode' = 1
          /\ urls' = IF ConfigMissing(env) THEN <<>> ELSE ParseUrls(env)
          /\ UNCHANGED <<i, preset, result, tempFile, invocations>>
     ELSE /\ urls' = ParseUrls(env)
          /\ result' = NewResult(ParseUrls(env)[1])
          /\ BeginAudit(1, "mobile")
          /\ UNCHANGED exitCode
  /\ results' = <<>>
  /\ UNCHANGED <<env, execExit, returned, auditLog, lastUnlinkOk, fatal,
                 emitted, run, deletionFailed, archiveWrites>>
  /\ UNCHANGED <<fileVars, clockVars, fnVars>>

\* the engine ends: it has or has not written its output file, and exits
EngineExit(out) ==
  /\ pc = "exec"
  /\ pc' = "resume"
  /\ execExit' = out.exit
  /\ tempFiles' = IF out.file.kind = "none" THEN tempFiles
                  ELSE WriteFile(tempFiles, tempFile, out.file)
  /\ UNCHANGED <<env, urls, i, preset, result, results, tempFile, exitCode,
                 run, invocations, returned, auditLog, deletionFailed,
                 lastUnlinkOk, fatal, emitted, archiveWrites>>
  /\ UNCHANGED <<csvFiles, htmlFiles, archive, clockVars, fnVars>>

\* what the finished call was given, for the history
LogEntry(unlinkOk) ==
  [i |-> i, preset |-> preset, exit |-> execExit, unlinkOk |-> unlinkOk,
   file |-> IF tempFile \in DOMAIN tempFiles THEN tempFiles[tempFile]
            ELSE NoOutput]

\* analyzeUrls from the await to the next one: the rest of runLighthouse,
\* the try/catch around it, and either the next call of runLighthouse or
\* the return of the results
Resume(unlinkOk) ==
  /\ pc = "resume"
  /\ LET r == runLighthouseResume(tempFiles, tempFile, execExit, unlinkOk)
         a == TryAudit(r)
         failed == ~IsNull(a.metrics.error)
         res == IF preset = "mobile" THEN RecordMobile(result, a.metrics)
                ELSE RecordDesktop(result, a.metrics)
         nxt == NextAudit(i, preset, failed)
         pushed == IF nxt.i # i THEN PushResult(results, res) ELSE results
     IN  /\ tempFiles' = r.files
         /\ returned' = returned + 1
         /\ auditLog' = Append(auditLog, LogEntry(unlinkOk))
         /\ lastUnlinkOk' = (unlinkOk \/ tempFile \notin DOMAIN tempFiles)
         /\ deletionFailed' =
              (deletionFailed \/ (~unlinkOk /\ tempFile \in DOMAIN tempFiles))
         /\ IF a.escaped
            THEN /\ pc' = "exited"
                 /\ exitCode' = 1
                 /\ fatal' = "audit"
                 /\ UNCHANGED <<i, preset, result, results, tempFile,
                                invocations>>
            ELSE /\ results' = pushed
                 /\ UNCHANGED <<exitCode, fatal>>
                 /\ IF nxt.i > Len(urls)
                    THEN /\ pc' = "emit"
                         /\ result' = res
                         /\ UNCHANGED <<i, preset, tempFile, invocations>>
                    ELSE /\ result' = IF nxt.i # i THEN NewResult(urls[nxt.i])
                                      ELSE res
                         /\ BeginAudit(nxt.i, nxt.preset)
  /\ UNCHANGED <<env, urls, execExit, run, emitted, archiveWrites>>
  /\ UNCHANGED <<csvFiles, htmlFiles, archive, clockVars, fnVars>>

\* the .then handler: the three emitters in order, then process.exit(0);
\* an emitter whose write fails throws into .catch, which exits with 1
Emit(failAt) ==
  /\ pc = "emit"
  /\ pc' = "exited"
  /\ csvFiles' = IF failAt = "csv" THEN csvFiles
                 ELSE WriteFile(csvFiles, CsvName(now),
                                saveResultsToCSV(results))
  /\ htmlFiles' = IF failAt \in {"csv", "html"} THEN htmlFiles
                  ELSE WriteFile(htmlFiles, HtmlName(now),
                                 generateSimplifiedHTMLEmail(results))
  /\ archive' = IF failAt \in {"csv", "html", "history"} THEN archive
                ELSE WriteFile(archive, ArchiveName(now),
                               HistoricalData(now, results))
  /\ archiveWrites' = IF failAt = "none" THEN Append(archiveWrites, now)
                      ELSE archiveWrites
  /\ emitted' = CASE failAt = "csv" -> {}
                  [] failAt = "html" -> {"csv"}
                  [] failAt = "history" -> {"csv", "html"}
                  [] OTHER -> Emitters
  /\ exitCode' = IF failAt = "none" THEN 0 ELSE 1
  /\ fatal' = IF failAt = "none" THEN "none" ELSE "emitter"
  /\ UNCHANGED <<env, urls, i, preset, result, results, tempFile, execExit,
                 tempFiles, run, invocations, returned, auditLog,
                 deletionFailed, lastUnlinkOk>>
  /\ UNCHANGED <<clockVars, fnVars>>

\* time passes
Tick(d) ==
  /\ ticks < MaxTicks
  /\ now' = now + d
  /\ ticks' = ticks + 1
  /\ UNCHANGED <<env, pc, run, deletionFailed, archiveWrites>>
  /\ UNCHANGED <<processVars, fileVars, fnVars>>

\* a new execution of the program (the next scheduled run): a fresh
\* process on the same disk, configuration and clock
Restart ==
  /\ pc = "exited"
  /\ run < MaxRuns
  /\ run' = run + 1
  /\ pc' = "start"
  /\ urls' = <<>>
  /\ i' = 0
  /\ preset' = "mobile"
  /\ result' = NewResult(<<>>)
  /\ results' = <<>>
  /\ tempFile' = TempFileName("mobile", 0)
  /\ execExit' = 0
  /\ exitCode' = -1
  /\ invocations' = <<>>
  /\ returned' = 0
  /\ auditLog' = <<>>
  /\ lastUnlinkOk' = TRUE
  /\ fatal' = "none"
  /\ emitted' = {}
  /\ UNCHANGED <<env, deletionFailed, archiveWrites>>
  /\ UNCHANGED <<fileVars, clockVars, fnVars>>

\* extractMetrics applied to a report on its own
ApplyExtract ==
  /\ pc = "call"
  /\ pc' = "returned"
  /\ fnRes' = [threw |-> ExtractThrows(fnArg), metrics |-> extractMetrics(fnArg)]
  /\ UNCHANGED <<env, run, deletionFailed, archiveWrites, fnArg>>
  /\ UNCHANGED <<processVars, fileVars, clockVars>>

\* ------------------------------------------------------- specifications
\* One execution of the program, over every configuration value of up to
\* MaxEnvLen characters; the engine fails or writes a good report;
\* deletions succeed.
BatchOutcomes ==
  {[exit |-> 1, file |-> NoOutput], [exit |-> 0, file |-> Json(GoodReport)]}

Next ==
  \/ Startup
  \/ \E out \in BatchOutcomes : EngineExit(out)
  \/ Resume(TRUE)
  \/ \E f \in Emitters \cup {"none"} : Emit(f)
  \/ \E d \in ClockSteps : Tick(d)

Spec == Init /\ [][Next]_vars

\* One execution over a short configuration value (at most one URL), with
\* every way the engine can end and deletions that may fail.
InitAudit ==
  /\ env \in EnvValues(MaxAuditEnvLen)
  /\ pc = "start"
  /\ FreshProcess
  /\ EmptyDisk
  /\ now \in ClockStarts
  /\ ticks = 0
  /\ run = 1
  /\ fnArg = EmptyReport
  /\ fnRes = NoResult

NextAuditSpec ==
  \/ Startup
  \/ \E out \in EngineOutcomes : EngineExit(out)
  \/ \E ok \in BOOLEAN : Resume(ok)
  \/ \E f \in Emitters \cup {"none"} : Emit(f)
  \/ \E d \in ClockSteps : Tick(d)

SpecAudit == InitAudit /\ [][NextAuditSpec]_vars

\* Successive executions on one disk, with no URL or one URL configured; of
\* the emitters only the archive writer may fail.
RunEnvs ==
  {[defined |-> FALSE, value |-> <<>>], [defined |-> TRUE, value |-> <<"a">>]}

InitRuns ==
  /\ env \in RunEnvs
  /\ pc = "start"
  /\ FreshProcess
  /\ EmptyDisk
  /\ now \in ClockStarts
  /\ ticks = 0
  /\ run = 1
  /\ fnArg = EmptyReport
  /\ fnRes = NoResult

RunOutcomes ==
  {[exit |-> 1, file |-> NoOutput], [exit |-> 0, file |-> Json(GoodReport)]}

NextRuns ==
  \/ Startup
  \/ \E out \in RunOutcomes : EngineExit(out)
  \/ Resume(TRUE)
  \/ \E f \in {"history", "none"} : Emit(f)
  \/ \E d \in ClockSteps : Tick(d)
  \/ Restart

SpecRuns == InitRuns /\ [][NextRuns]_vars

\* extractMetrics on its own, over reports whose five audit entries are each
\* absent, without numericValue, or with numericValue 0, 0.4 or 2.5, and
\* whose performance category is absent, null or scored.
AuditChoices == {NoAudit, Audit(Null), Audit(Some(0)), Audit(Some(4)), Audit(Some(25))}
CategoryChoices == {NoCategory, Category(Null), Category(Some(895))}

ExtractReports ==
  {Report([AllCategories(Some(1000)) EXCEPT !["performance"] = c], a) :
     c \in CategoryChoices, a \in [TimingNames -> AuditChoices]}

InitExtract ==
  /\ fnArg \in ExtractReports
  /\ fnRes = NoResult
  /\ pc = "call"
  /\ env = [defined |-> FALSE, value |-> <<>>]
  /\ FreshProcess
  /\ EmptyDisk
  /\ now = 0
  /\ ticks = 0
  /\ run = 1

SpecExtract == InitExtract /\ [][ApplyExtract]_vars

\* The emitters on their own, over Batch Results of up to MaxCsvRows URLs
\* whose Metric Sets are extracted from a report or are a failure's.
CsvUrls == {<<"a">>, <<"a", " ", "b">>}

CsvMetricSets ==
  {extractMetrics(GoodReport), extractMetrics(PartialReport),
   FailedMetricSet("Command failed")}

CsvResult == [url : CsvUrls, desktop : CsvMetricSets, mobile : CsvMetricSets]

BatchResults(n) == UNION {[1..k -> CsvResult] : k \in 1..n}

InitCSV ==
  /\ results \in BatchResults(MaxCsvRows)
  /\ urls = [k \in 1..Len(results) |-> results[k].url]
  /\ env = [defined |-> TRUE, value |-> join(urls, ",")]
  /\ pc = "emit"
  /\ i = Len(results) + 1
  /\ preset = "mobile"
  /\ result = results[Len(results)]
  /\ tempFile = TempFileName("desktop", 0)
  /\ execExit = 0
  /\ exitCode = -1
  /\ invocations = <<>>
  /\ returned = 0
  /\ auditLog = <<>>
  /\ lastUnlinkOk = TRUE
  /\ fatal = "none"
  /\ emitted = {}
  /\ EmptyDisk
  /\ now = 0
  /\ ticks = 0
  /\ run = 1
  /\ fnArg = EmptyReport
  /\ fnRes = NoResult

NextCSV == \E f \in Emitters \cup {"none"} : Emit(f)

SpecCSV == InitCSV /\ [][NextCSV]_vars

\* ----------------------------------------------------------- properties
Failed(m) == ~IsNull(m.error)
AllAbsent(m) == \A k \in 1..Len(MetricNames) : IsNull(m[MetricNames[k]])
SecondOf(t) == t \div MsPerSec
NoArtifacts ==
  /\ emitted = {}
  /\ DOMAIN csvFiles = {}
  /\ DOMAIN htmlFiles = {}
  /\ DOMAIN archive = {}

\* C1: once analyzeUrls has returned, the Batch Result has one entry per
\* configured URL and its k-th entry carries the k-th URL, whatever audits
\* failed; while the loop runs, the results are the entries of the URLs
\* already finished, in order.
BatchCoversEveryUrl ==
  /\ Len(results) <= Len(urls)
  /\ \A k \in 1..Len(results) : results[k].url = urls[k]
  /\ pc \in {"exec", "resume"} => Len(results) = i - 1
  /\ (pc = "emit" \/ (pc = "exited" /\ urls # <<>>)) =>
       Len(results) = Len(urls)

\* C1 witness: two different URLs, all four audits failed, the batch returned
BatchOfFailuresReturned ==
  /\ pc = "emit"
  /\ Len(urls) = 2
  /\ urls[1] # urls[2]
  /\ Len(results) = 2
  /\ \A k \in 1..2 : Failed(results[k].mobile) /\ Failed(results[k].desktop)

\* whether the audit a log entry describes failed: the engine exited
\* non-zero, the output file was missing or no JSON, extraction threw, or
\* the deletion of the output file threw
AuditFailed(L) ==
  \/ L.exit # 0
  \/ L.file.kind # "json"
  \/ ExtractThrows(L.file.report)
  \/ ~L.unlinkOk

RecordedFor(L) ==
  IF L.i <= Len(results) THEN results[L.i][L.preset] ELSE result[L.preset]

\* C2: the Metric Set recorded for a (URL, profile) is all-absent with an
\* error message exactly when that profile's own audit failed, and is the
\* metrics extracted from its own report, without error marker, otherwise;
\* nothing of the other profile's audit enters.
OwnOutcomeRecorded ==
  \A n \in 1..Len(auditLog) :
    LET L == auditLog[n]
        m == RecordedFor(L)
    IN  IF AuditFailed(L)
        THEN AllAbsent(m) /\ Failed(m)
        ELSE m = extractMetrics(L.file.report) /\ ~Failed(m) /\ ~AllAbsent(m)

\* C2 witness: the mobile audit failed and the desktop audit of the same
\* URL succeeded
MobileFailedDesktopSucceeded ==
  /\ pc = "emit"
  /\ Len(results) = 1
  /\ Failed(results[1].mobile)
  /\ results[1].desktop = extractMetrics(GoodReport)

\* C3: the n-th call of runLighthouse is for URL ceil(n/2), mobile for odd
\* n and desktop for even n; after the loop there are exactly two calls per
\* URL; at most one call is running, and one is running exactly while the
\* process awaits the engine.
SequentialOnce ==
  /\ \A n \in 1..Len(invocations) :
       /\ invocations[n].i = (n + 1) \div 2
       /\ invocations[n].preset = (IF n % 2 = 1 THEN "mobile" ELSE "desktop")
  /\ Len(invocations) <= 2 * Len(urls)
  /\ pc \in {"emit", "exited"} => Len(invocations) = 2 * Len(urls)
  /\ Len(invocations) - returned \in {0, 1}
  /\ (Len(invocations) - returned = 1) <=> pc \in {"exec", "resume"}

\* C3 witness: a two-URL run in which the first mobile audit failed has
\* gone on to its fourth call
FourthCallAfterFailure ==
  /\ pc = "exec"
  /\ Len(urls) = 2
  /\ Len(invocations) = 4
  /\ Failed(results[1].mobile)

\* the configuration names no URL: unset, or nothing but commas and blanks
NoEntry(e) ==
  \/ ~e.defined
  \/ \A k \in 1..Len(e.value) : e.value[k] \in Whitespace \cup {","}

\* C4: with a configuration that names no URL the process exits with code
\* 1 in its first step, having started no audit and written no artifact.
ConfigErrorIsFatal ==
  (NoEntry(env) /\ pc # "start") =>
    /\ pc = "exited"
    /\ exitCode = 1
    /\ invocations = <<>>
    /\ NoArtifacts

\* C4 witness: a value of commas and blanks that is not blank as a whole
CommasOnlyExited ==
  /\ pc = "exited"
  /\ env.defined
  /\ ~ConfigMissing(env)
  /\ NoEntry(env)
  /\ \E k \in 1..Len(env.value) : env.value[k] = " "

\* C5: with URLs configured, the exit code is 0 exactly when the three
\* emitters completed and 1 exactly when an error reached the .catch
\* handler, and that error is never an audit's.
ExitCodeReflectsPipeline ==
  /\ fatal # "audit"
  /\ (pc = "exited" /\ urls # <<>>) =>
       /\ exitCode \in {0, 1}
       /\ exitCode = 0 <=> emitted = Emitters
       /\ exitCode = 1 <=> fatal = "emitter"

\* C5 witness: both audits of the configured URL failed, one in the engine
\* and one in extraction, and the process exited 0
AllFailedExitZero ==
  /\ pc = "exited"
  /\ exitCode = 0
  /\ Len(results) = 1
  /\ results[1].mobile = FailedMetricSet("Command failed")
  /\ results[1].desktop = FailedMetricSet("TypeError")

\* C6: unless a deletion has thrown, no temporary file exists except while
\* the engine's output waits to be read; and the file of the call that
\* finished last is gone if that call's deletion did not throw.
TempFilesCleanedUp ==
  /\ (pc # "resume" /\ ~deletionFailed) => DOMAIN tempFiles = {}
  /\ (pc # "resume" /\ returned > 0 /\ lastUnlinkOk) =>
       invocations[returned].tempFile \notin DOMAIN tempFiles

\* C6 witness: one call failed leaving a partial output file, another
\* returned a report, and the loop is over
FailureAndSuccessCleaned ==
  /\ pc = "emit"
  /\ ~deletionFailed
  /\ \E n \in 1..Len(auditLog) :
       auditLog[n].exit # 0 /\ auditLog[n].file.kind = "garbage"
  /\ \E n \in 1..Len(auditLog) : ~AuditFailed(auditLog[n])

\* C7 as claimed: no two calls of runLighthouse use the same temporary file
\* name.
TempNamesUnique ==
  \A m, n \in 1..Len(invocations) :
    m # n => invocations[m].tempFile # invocations[n].tempFile

\* C8 as claimed: the archive holds as many files as runs have completed.
ArchiveOneFilePerRun == Cardinality(DOMAIN archive) = Len(archiveWrites)

\* C8 amended: the archive holds one file per whole second in which a
\* completed run wrote, and for every completed run the file of its second
\* is there, written in that second.
ArchiveOneFilePerSecond ==
  /\ Cardinality(DOMAIN archive) =
       Cardinality({SecondOf(archiveWrites[k]) : k \in 1..Len(archiveWrites)})
  /\ \A k \in 1..Len(archiveWrites) :
       \E f \in DOMAIN archive :
         SecondOf(archive[f].timestamp) = SecondOf(archiveWrites[k])
  /\ \A f, g \in DOMAIN archive :
       f # g => SecondOf(archive[f].timestamp) # SecondOf(archive[g].timestamp)

\* C8 witness: two runs completed in different seconds, two files
TwoRunsTwoFiles ==
  /\ Len(archiveWrites) = 2
  /\ SecondOf(archiveWrites[1]) # SecondOf(archiveWrites[2])
  /\ Cardinality(DOMAIN archive) = 2

\* C9 as claimed: a timing field is absent exactly when the audit entry
\* has no numeric value, and otherwise holds that value (rounded, except
\* cls), 0 included.
TimingAbsentOnlyWithoutValue ==
  (pc = "returned" /\ ~fnRes.threw) =>
    \A t \in TimingNames :
      LET a == fnArg.audits[t]
          hasValue == a.present /\ ~IsNull(a.numericValue)
      IN  /\ IsNull(fnRes.metrics[t]) <=> ~hasValue
          /\ hasValue =>
               fnRes.metrics[t] =
                 Some(IF t = "cls" THEN a.numericValue[1]
                      ELSE MathRound(a.numericValue[1]))

CsvLines(text) == split(text, "\n")
CsvCells(line) == split(line, ",")

\* C10: a written CSV has the header line and one line per result, in
\* order; every line has 19 cells; a metric's cell is ERROR exactly when
\* the metric is absent.
CsvShape ==
  \A f \in DOMAIN csvFiles :
    LET lines == CsvLines(csvFiles[f])
    IN  /\ Len(lines) = Len(results) + 1
        /\ \A k \in 1..Len(lines) : Len(CsvCells(lines[k])) = 19
        /\ CsvCells(lines[1]) = [k \in 1..19 |-> <<HeaderLabels[k]>>]
        /\ \A k \in 1..Len(results) :
             LET cells == CsvCells(lines[k + 1])
             IN  /\ cells[1] = results[k].url
                 /\ \A j \in 1..9 :
                      /\ cells[1 + j] = <<"ERROR">>
                           <=> IsNull(results[k].desktop[MetricNames[j]])
                      /\ cells[10 + j] = <<"ERROR">>
                           <=> IsNull(results[k].mobile[MetricNames[j]])

\* C10 witness: a CSV of two rows in which one URL's mobile audit failed
\* and its desktop audit gave nine numbers
CsvWithFailedMobile ==
  /\ DOMAIN csvFiles # {}
  /\ Len(results) = 2
  /\ Failed(results[2].mobile)
  /\ results[2].desktop = extractMetrics(GoodReport)
  /\ results[1].mobile = extractMetrics(PartialReport)

====
